---------------------------- MODULE Spec2Model ----------------------------
(***************************************************************************)
(* host-metrics: a Prometheus exporter.  Collection goroutines sample the  *)
(* host (memory, CPU, swap, network, filesystems, ZFS pools) and Set the   *)
(* gauges of a registry; the HTTP handler gathers the registry on every    *)
(* request.                                                                *)
(*                                                                         *)
(* The repository holds four revisions of the program.  The variable       *)
(* build says which one runs:                                              *)
(*   "main"     src/main.go            RAM+CPU loop, ZFS loop              *)
(*   "part_001" src/unnamed/part_001   one loop over every source          *)
(*   "part_002" src/unnamed/part_002   RAM+CPU loop, ZFS loop, FS loop     *)
(*   "part_003" src/unnamed/part_003   RAM+CPU loop                        *)
(*                                                                         *)
(* Units.  A raw percentage is an integer number of thousandths of a       *)
(* percent (42567 is 42.567), a stored percentage an integer number of     *)
(* hundredths (4257 is 42.57).  Byte counters are plain integers, kept     *)
(* below 2^53, where float64(uint64) is exact.  A Go string is a sequence  *)
(* of one-character strings.                                               *)
(***************************************************************************)
EXTENDS Integers, Sequences, FiniteSets, TLC

\* Bounds of the model: the longest zpool output (lines), partition list and
\* interface list a sampler returns, and the number of cycles whose samples
\* rise.
MaxLines == 2
MaxParts == 2
MaxStats == 2
MaxCycles == 3

\* A Go result pair (value, err): err is TRUE when the call failed
Ok(v) == [val |-> v, err |-> FALSE]
Failed(zero) == [val |-> zero, err |-> TRUE]

Builds == {"main", "part_001", "part_002", "part_003"}

(***************************************************************************)
(* Strings                                                                 *)
(***************************************************************************)
\* strings.HasPrefix
HasPrefix(s, prefix) ==
    /\ Len(s) >= Len(prefix)
    /\ SubSeq(s, 1, Len(prefix)) = prefix

\* strings.TrimSuffix: s without the suffix when it ends with it, else s
TrimSuffix(s, suffix) ==
    IF /\ Len(s) >= Len(suffix)
       /\ SubSeq(s, Len(s) - Len(suffix) + 1, Len(s)) = suffix
    THEN SubSeq(s, 1, Len(s) - Len(suffix))
    ELSE s

\* unicode.IsSpace on the characters the model uses
IsSpace(c) == c \in {" ", "\t", "\n", "\r"}

RECURSIVE FieldsFrom(_, _, _)
FieldsFrom(s, cur, acc) ==
    IF s = <<>>
    THEN IF cur = <<>> THEN acc ELSE Append(acc, cur)
    ELSE IF IsSpace(Head(s))
         THEN FieldsFrom(Tail(s), <<>>, IF cur = <<>> THEN acc ELSE Append(acc, cur))
         ELSE FieldsFrom(Tail(s), Append(cur, Head(s)), acc)

\* strings.Fields: the maximal runs of non-space characters
Fields(s) == FieldsFrom(s, <<>>, <<>>)

\* bufio.ScanLines drops one trailing carriage return of a line
DropCR(s) ==
    IF s # <<>> /\ s[Len(s)] = "\r" THEN SubSeq(s, 1, Len(s) - 1) ELSE s

RECURSIVE LinesFrom(_, _, _)
LinesFrom(s, cur, acc) ==
    IF s = <<>>
    THEN IF cur = <<>> THEN acc ELSE Append(acc, DropCR(cur))
    ELSE IF Head(s) = "\n"
         THEN LinesFrom(Tail(s), <<>>, Append(acc, DropCR(cur)))
         ELSE LinesFrom(Tail(s), Append(cur, Head(s)), acc)

\* bufio.Scanner with the default split function: the lines of the output,
\* without their line ends; a last line without a line end is a line too
ScanLines(out) == LinesFrom(out, <<>>, <<>>)

IsDigit(c) == c \in {"0", "1", "2", "3", "4", "5", "6", "7", "8", "9"}

DigitVal(c) ==
    CASE c = "0" -> 0 [] c = "1" -> 1 [] c = "2" -> 2 [] c = "3" -> 3
      [] c = "4" -> 4 [] c = "5" -> 5 [] c = "6" -> 6 [] c = "7" -> 7
      [] c = "8" -> 8 [] c = "9" -> 9

RECURSIVE DigitsVal(_, _)
DigitsVal(s, acc) ==
    IF s = <<>> THEN acc ELSE DigitsVal(Tail(s), 10 * acc + DigitVal(Head(s)))

AllDigits(s) == \A i \in 1..Len(s) : IsDigit(s[i])

\* the position of the first "." of s, 0 when it has none
DotAt(s) ==
    IF \E i \in 1..Len(s) : s[i] = "."
    THEN CHOOSE i \in 1..Len(s) : s[i] = "." /\ \A j \in 1..(i - 1) : s[j] # "."
    ELSE 0

\* an unsigned decimal "ddd", "ddd.", ".ddd" or "ddd.ddd" (at most three
\* fraction digits in the model) as thousandths, or a syntax error
ParseUnsigned(s) ==
    LET d    == DotAt(s)
        int  == IF d = 0 THEN s ELSE SubSeq(s, 1, d - 1)
        frac == IF d = 0 THEN <<>> ELSE SubSeq(s, d + 1, Len(s))
        pad  == frac \o SubSeq(<<"0", "0", "0">>, 1, 3 - Len(frac))
    IN  IF /\ Len(int) + Len(frac) > 0
           /\ AllDigits(int)
           /\ AllDigits(frac)
           /\ Len(frac) <= 3
        THEN Ok(1000 * DigitsVal(int, 0) + DigitsVal(pad, 0))
        ELSE Failed(0)

\* strconv.ParseFloat(s, 64) on decimal numerals with an optional sign: the
\* value in thousandths, or a syntax error
ParseFloat(s) ==
    IF s = <<>> THEN Failed(0)
    ELSE IF Head(s) = "-"
         THEN LET r == ParseUnsigned(Tail(s))
              IN  IF r.err THEN r ELSE Ok(0 - r.val)
    ELSE IF Head(s) = "+" THEN ParseUnsigned(Tail(s))
    ELSE ParseUnsigned(s)

\* a slip: the value is cut after two decimals instead of rounded
roundToTwoDecimalsCut(value) == value \div 10

\* roundToTwoDecimals: math.Round(value*100)/100, math.Round rounding half
\* away from zero; thousandths in, hundredths out
roundToTwoDecimals(value) ==
    IF value >= 0 THEN (value + 5) \div 10 ELSE 0 - ((5 - value) \div 10)

(***************************************************************************)
(* The registry.  A metric identity is <<field of Metrics, label values>>; *)
(* the registry maps the identities it would render to their values.       *)
(***************************************************************************)
Id(name, labels) == <<name, labels>>

\* the plain gauges of the Metrics struct of each revision
Gauges(b) ==
    IF b = "part_001" THEN {"ramUsage", "cpuUsage", "swapUsage"}
    ELSE {"ramUsage", "cpuUsage"}

\* its gauge vectors
Vecs(b) ==
    CASE b = "main"     -> {"zfsUsage"}
      [] b = "part_001" -> {"zfsUsage", "fsUsage", "netBytesSent", "netBytesRecv"}
      [] b = "part_002" -> {"zfsUsage", "fsUsage"}
      [] b = "part_003" -> {}

\* RegisterMetrics: the collectors in the order of the MustRegister calls
Registered(b) ==
    CASE b = "main"     -> <<"ramUsage", "cpuUsage", "zfsUsage">>
      [] b = "part_001" -> <<"ramUsage", "cpuUsage", "swapUsage", "zfsUsage",
                             "fsUsage", "netBytesSent", "netBytesRecv">>
      [] b = "part_002" -> <<"ramUsage", "cpuUsage", "zfsUsage", "fsUsage">>
      [] b = "part_003" -> <<"ramUsage", "cpuUsage">>

\* a slip: the plain gauges are not registered
RegisterMetricsNone(b) == [id \in {} |-> 0]

\* NewMetrics and RegisterMetrics: prometheus.NewGauge makes a gauge of value
\* 0, and a registered gauge is collected on every Gather from then on; a
\* registered GaugeVec has no child until WithLabelValues makes one
RegisterMetrics(b) == [id \in {Id(g, <<>>) : g \in Gauges(b)} |-> 0]

\* a slip: the store replaces the registry by the one identity
SetAlone(r, id, v) == [x \in {id} |-> v]

\* a slip: only the first Set of a gauge stores, the later ones are lost
SetKeepFirst(r, id, v) ==
    [x \in DOMAIN r \cup {id} |-> IF x \in DOMAIN r THEN r[x] ELSE v]

\* a slip: Add in place of Set
SetAdd(r, id, v) ==
    [x \in DOMAIN r \cup {id} |->
        IF x = id THEN (IF id \in DOMAIN r THEN r[id] + v ELSE v) ELSE r[x]]

\* Gauge.Set, after WithLabelValues for a vector: one atomic store; the child
\* is created when it is missing
Set(r, id, v) == [x \in DOMAIN r \cup {id} |-> IF x = id THEN v ELSE r[x]]

\* the Set calls of a sequence <<id, value>>, in order
RECURSIVE ApplySets(_, _)
ApplySets(r, sets) ==
    IF sets = <<>> THEN r
    ELSE ApplySets(Set(r, Head(sets)[1], Head(sets)[2]), Tail(sets))

\* a slip: the load is not atomic and sees a value between two stores
WriteTorn(r, id) == r[id] + 1

\* Metric.Write of the handler's Gather: one atomic load of the gauge
Write(r, id) == r[id]

(***************************************************************************)
(* The collection code: each operator gives the Set calls, in order, that  *)
(* one section of a loop body makes on the result of its sampler.          *)
(***************************************************************************)
\* a slip: the gauge is zeroed when the query fails
RamSetsZeroOnError(res) ==
    IF res.err THEN <<<<Id("ramUsage", <<>>), 0>>>>
    ELSE <<<<Id("ramUsage", <<>>), roundToTwoDecimals(res.val)>>>>

\* mem.VirtualMemory: res.val is vmStat.UsedPercent
RamSets(res) ==
    IF res.err THEN <<>>
    ELSE <<<<Id("ramUsage", <<>>), roundToTwoDecimals(res.val)>>>>

\* a slip: an empty slice is stored as 0
CpuSetsZeroOnEmpty(res) ==
    IF res.err THEN <<>>
    ELSE IF Len(res.val) > 0
         THEN <<<<Id("cpuUsage", <<>>), roundToTwoDecimals(res.val[1])>>>>
         ELSE <<<<Id("cpuUsage", <<>>), 0>>>>

\* cpu.Percent(0, false): res.val is the slice cpuPercents
CpuSets(res) ==
    IF res.err THEN <<>>
    ELSE IF Len(res.val) > 0
         THEN <<<<Id("cpuUsage", <<>>), roundToTwoDecimals(res.val[1])>>>>
         ELSE <<>>

\* mem.SwapMemory: res.val is swapStat.UsedPercent
SwapSets(res) ==
    IF res.err THEN <<>>
    ELSE <<<<Id("swapUsage", <<>>), roundToTwoDecimals(res.val)>>>>

PrefixEns == <<"e", "n", "s">>

\* a slip: the prefix is cut short to "en"
NetStatSetsPrefixEn(stat) ==
    IF HasPrefix(stat.Name, <<"e", "n">>)
    THEN << <<Id("netBytesSent", <<stat.Name>>), stat.BytesSent>>,
            <<Id("netBytesRecv", <<stat.Name>>), stat.BytesRecv>> >>
    ELSE <<>>

\* one element of the slice of net.IOCounters(true)
NetStatSets(stat) ==
    IF HasPrefix(stat.Name, PrefixEns)
    THEN << <<Id("netBytesSent", <<stat.Name>>), stat.BytesSent>>,
            <<Id("netBytesRecv", <<stat.Name>>), stat.BytesRecv>> >>
    ELSE <<>>

RECURSIVE NetLoop(_)
NetLoop(stats) ==
    IF stats = <<>> THEN <<>>
    ELSE NetStatSets(Head(stats)) \o NetLoop(Tail(stats))

\* net.IOCounters(true): res.val is the slice netIOStats
NetSets(res) == IF res.err THEN <<>> ELSE NetLoop(res.val)

PrefixBootEfi == <<"/", "b", "o", "o", "t", "/", "e", "f", "i">>
PrefixZpools == <<"/", "v", "a", "r", "/", "e", "n", "v", "i", "r", "o", "b", "l", "y", "/", "z", "p", "o", "o", "l", "s">>
PrefixDockerVolumes == <<"/", "v", "a", "r", "/", "l", "i", "b", "/", "d", "o", "c", "k", "e", "r", "/", "v", "o", "l", "u", "m", "e", "s">>

\* a slip: the last prefix is forgotten
isExcludedMountPointTwo(mountpoint) ==
    \/ HasPrefix(mountpoint, PrefixBootEfi)
    \/ HasPrefix(mountpoint, PrefixZpools)

isExcludedMountPoint(mountpoint) ==
    \/ HasPrefix(mountpoint, PrefixBootEfi)
    \/ HasPrefix(mountpoint, PrefixZpools)
    \/ HasPrefix(mountpoint, PrefixDockerVolumes)

\* one partition of the range loop; partition.Usage is the result disk.Usage
\* gives for its mount point, asked only when the mount point is not excluded
PartitionSets(partition) ==
    IF isExcludedMountPoint(partition.Mountpoint) THEN <<>>
    ELSE IF partition.Usage.err THEN <<>>
    ELSE << <<Id("fsUsage", <<partition.Device, partition.Mountpoint>>),
              roundToTwoDecimals(partition.Usage.val)>> >>

\* a slip: break in place of continue when disk.Usage fails
RECURSIVE PartitionLoopBreak(_)
PartitionLoopBreak(partitions) ==
    IF partitions = <<>> THEN <<>>
    ELSE IF ~isExcludedMountPoint(Head(partitions).Mountpoint)
            /\ Head(partitions).Usage.err
         THEN <<>>
         ELSE PartitionSets(Head(partitions)) \o PartitionLoopBreak(Tail(partitions))

RECURSIVE PartitionLoop(_)
PartitionLoop(partitions) ==
    IF partitions = <<>> THEN <<>>
    ELSE PartitionSets(Head(partitions)) \o PartitionLoop(Tail(partitions))

\* disk.Partitions(false): res.val is the slice partitions
FSSets(res) == IF res.err THEN <<>> ELSE PartitionLoop(res.val)

Percent == <<"%">>

\* one line of the scanner loop
LineSets(line) ==
    LET fields == Fields(line)
    IN  IF Len(fields) # 2 THEN <<>>
        ELSE LET poolName      == fields[1]
                 capPercentStr == TrimSuffix(fields[2], Percent)
                 capPercent    == ParseFloat(capPercentStr)
             IN  IF capPercent.err THEN <<>>
                 ELSE << <<Id("zfsUsage", <<poolName>>),
                           roundToTwoDecimals(capPercent.val)>> >>

\* a slip: the loop ends at the first line that gives no Set call
RECURSIVE ScannerLoopBreak(_)
ScannerLoopBreak(lines) ==
    IF lines = <<>> \/ LineSets(Head(lines)) = <<>> THEN <<>>
    ELSE LineSets(Head(lines)) \o ScannerLoopBreak(Tail(lines))

RECURSIVE ScannerLoop(_)
ScannerLoop(lines) ==
    IF lines = <<>> THEN <<>>
    ELSE LineSets(Head(lines)) \o ScannerLoop(Tail(lines))

\* exec.Command("zpool", "list", "-H", "-o", "name,cap").Output(): res.val is
\* the output out
ZpoolSets(res) == IF res.err THEN <<>> ELSE ScannerLoop(ScanLines(res.val))

(***************************************************************************)
(* What the samplers may return.                                           *)
(***************************************************************************)
\* the sequences over S of length at most n
SeqsUpTo(S, n) == UNION {[1..k -> S] : k \in 0..n}

RECURSIVE Concat(_)
Concat(ss) == IF ss = <<>> THEN <<>> ELSE Head(ss) \o Concat(Tail(ss))

MemResults ==
    {Failed(0), Ok(42567), Ok(13100), Ok(42565), Ok(42564), Ok(100000)}
CpuResults == {Failed(<<>>), Ok(<<>>), Ok(<<13100>>), Ok(<<20000>>), Ok(<<5>>)}
SwapResults == {Failed(0), Ok(0), Ok(99995)}

Ens5 == <<"e", "n", "s", "5">>
Eth0 == <<"e", "t", "h", "0">>
En == <<"e", "n">>
StatSet ==
    { [Name |-> Ens5, BytesSent |-> 1500, BytesRecv |-> 700],
      [Name |-> Ens5, BytesSent |-> 0, BytesRecv |-> 0],
      [Name |-> Eth0, BytesSent |-> 10, BytesRecv |-> 20],
      [Name |-> En, BytesSent |-> 1, BytesRecv |-> 1] }
NetResults == {Failed(<<>>)} \cup {Ok(ss) : ss \in SeqsUpTo(StatSet, MaxStats)}

UsageResults == {Failed(0), Ok(75555)}
Mounted(device, mountpoint, usage) ==
    [Device |-> device, Mountpoint |-> mountpoint, Usage |-> usage]
\* disk.Usage is not asked for an excluded mount point: one result is enough
PartitionSet ==
    {Mounted(<<"s", "d", "a", "1">>, <<"/">>, u) : u \in UsageResults} \cup
    {Mounted(<<"s", "d", "a", "2">>, <<"/", "b", "o", "o", "t">>, u) : u \in UsageResults} \cup
    { Mounted(<<"s", "d", "a", "1", "5">>, <<"/", "b", "o", "o", "t", "/", "e", "f", "i">>, Ok(10000)),
      Mounted(<<"t", "a", "n", "k">>, <<"/", "v", "a", "r", "/", "e", "n", "v", "i", "r", "o", "b", "l", "y", "/", "z", "p", "o", "o", "l", "s", "/", "t", "a", "n", "k">>, Ok(10000)),
      Mounted(<<"o", "v", "e", "r", "l", "a", "y">>, <<"/", "v", "a", "r", "/", "l", "i", "b", "/", "d", "o", "c", "k", "e", "r", "/", "v", "o", "l", "u", "m", "e", "s", "/", "v">>, Ok(10000)) }
FSResults == {Failed(<<>>)} \cup {Ok(ps) : ps \in SeqsUpTo(PartitionSet, MaxParts)}

LineSet ==
    { <<"t", "a", "n", "k", "\t", "8", "7", "%">>,
      <<"t", "a", "n", "k", " ", "5", "5", "%">>,
      <<"t", "a", "n", "k", " ", "8", "7">>,
      <<"b", "a", "c", "k", "u", "p", " ", "x", "x", "%">>,
      <<"t", "a", "n", "k">>,
      <<"b", "a", "c", "k", "u", "p", " ", "2", "5", "0", "%">> }
ZpoolResults ==
    {Failed(<<>>)} \cup
    {Ok(Concat([i \in 1..Len(ls) |-> ls[i] \o <<"\n">>])) : ls \in SeqsUpTo(LineSet, MaxLines)}

(***************************************************************************)
(* The program                                                             *)
(***************************************************************************)
Tasks == {"metrics", "zfs", "fs"}

VARIABLES
    build,    \* the revision that runs
    reg,      \* the registry: identity -> value
    pc,       \* each goroutine's place in its loop, "off" when main starts none
    ev,       \* history: the last step, its input and its Set calls
    written,  \* history: every <<identity, value>> a Set call has stored
    pubPc,    \* the handler: "idle", "gather" or "done"
    todo,     \* the collectors the running Gather has still to collect
    snap,     \* the identities the handler has written out, with their values
    raced,    \* history: a Set call was made while the request was gathered
    hist      \* history: what the properties of behaviours need of the past

vars == <<build, reg, pc, ev, written, pubPc, todo, snap, raced, hist>>

Empty == [x \in {} |-> 0]

\* nothing has happened
NoHist ==
    [ old    |-> {},   \* the <<identity, value>> overwritten when the request began
      shown  |-> {},   \* the identities of the responses written so far
      prevIn |-> [op \in {} |-> <<>>],  \* the last result of each sampler
      same   |-> [t \in Tasks |-> FALSE],  \* the samplers of the goroutine's
                       \* cycle have so far given the results of its last cycle
      failed |-> {} ]  \* the samplers that have failed

\* main: the goroutines each revision starts, each at the top of its loop
Started(b) ==
    CASE b = "main"     -> {"metrics", "zfs"}
      [] b = "part_001" -> {"metrics"}
      [] b = "part_002" -> {"metrics", "zfs", "fs"}
      [] b = "part_003" -> {"metrics"}

\* the first statement of a goroutine's loop body
LoopHead(t) ==
    CASE t = "metrics" -> "ram"
      [] t = "zfs"     -> "zpool"
      [] t = "fs"      -> "fs"

\* the statement after a section of a loop body
Follow(b, t, at) ==
    IF t = "metrics" /\ b = "part_001"
    THEN CASE at = "ram"   -> "cpu"
           [] at = "cpu"   -> "swap"
           [] at = "swap"  -> "net"
           [] at = "net"   -> "fs"
           [] at = "fs"    -> "zpool"
           [] at = "zpool" -> "sleep"
    ELSE CASE at = "ram"   -> "cpu"
           [] at = "cpu"   -> "sleep"
           [] at = "fs"    -> "sleep"
           [] at = "zpool" -> "sleep"

\* a slip: log.Fatalf in place of log.Printf; the goroutine is gone
AfterZpoolErrorFatal(b, t) == "off"

\* where a failed zpool command leaves the loop: CollectZFSMetrics continues
\* with the next iteration at once, the single loop of part_001 goes on to
\* its sleep
AfterZpoolError(b, t) ==
    IF t = "zfs" THEN LoopHead(t) ELSE Follow(b, t, "zpool")

Init ==
    /\ build \in Builds
    /\ reg = RegisterMetrics(build)
    /\ pc = [t \in Tasks |-> IF t \in Started(build) THEN LoopHead(t) ELSE "off"]
    /\ ev = [task |-> "main", op |-> "start", in |-> <<>>, sets |-> <<>>]
    /\ written = {}
    /\ pubPc = "idle"
    /\ todo = <<>>
    /\ snap = Empty
    /\ raced = FALSE
    /\ hist = NoHist

\* a slip: a vector is Reset before its sampler's results are stored
SectionReset(t, op, input, sets, next) ==
    /\ LET vec == CASE op = "zpool" -> {"zfsUsage"}
                    [] op = "fs"    -> {"fsUsage"}
                    [] op = "net"   -> {"netBytesSent", "netBytesRecv"}
                    [] OTHER        -> {}
           kept == [id \in {x \in DOMAIN reg : x[1] \notin vec} |-> reg[id]]
       IN  reg' = ApplySets(kept, sets)
    /\ written' = written \cup {sets[i] : i \in 1..Len(sets)}
    /\ ev' = [task |-> t, op |-> op, in |-> input, sets |-> sets]
    /\ pc' = [pc EXCEPT ![t] = next]
    /\ raced' = (raced \/ (pubPc = "gather" /\ sets # <<>>))
    /\ UNCHANGED <<build, pubPc, todo, snap>>

\* one section of a loop body: the sampler returned input, the code makes the
\* Set calls sets and goes on at next
Section(t, op, input, sets, next) ==
    /\ reg' = ApplySets(reg, sets)
    /\ written' = written \cup {sets[i] : i \in 1..Len(sets)}
    /\ ev' = [task |-> t, op |-> op, in |-> input, sets |-> sets]
    /\ pc' = [pc EXCEPT ![t] = next]
    /\ raced' = (raced \/ (pubPc = "gather" /\ sets # <<>>))
    /\ UNCHANGED <<build, pubPc, todo, snap>>

\* a slip: a failed memory query ends the iteration, as a failed
\* disk.Partitions does in CollectFSMetrics
CollectRAMAbort(t, results) ==
    /\ pc[t] = "ram"
    /\ \E res \in results :
          Section(t, "ram", res, RamSets(res),
                  IF res.err THEN "sleep" ELSE Follow(build, t, "ram"))

CollectRAM(t, results) ==
    /\ pc[t] = "ram"
    /\ \E res \in results :
          Section(t, "ram", res, RamSets(res), Follow(build, t, "ram"))

CollectCPU(t, results) ==
    /\ pc[t] = "cpu"
    /\ \E res \in results :
          Section(t, "cpu", res, CpuSets(res), Follow(build, t, "cpu"))

CollectSwap(t, results) ==
    /\ pc[t] = "swap"
    /\ \E res \in results :
          Section(t, "swap", res, SwapSets(res), Follow(build, t, "swap"))

CollectNet(t, results) ==
    /\ pc[t] = "net"
    /\ \E res \in results :
          Section(t, "net", res, NetSets(res), Follow(build, t, "net"))

\* the filesystem section; CollectFSMetrics sleeps before its continue when
\* disk.Partitions fails, so both paths go on at the sleep
CollectFS(t, results) ==
    /\ pc[t] = "fs"
    /\ \E res \in results :
          Section(t, "fs", res, FSSets(res), Follow(build, t, "fs"))

\* exec.Command(...).Output() is called: the goroutine blocks until the
\* command has ended
ZpoolExec(t) ==
    /\ pc[t] = "zpool"
    /\ Section(t, "exec", <<>>, <<>>, "zpool_wait")

\* the command has ended with res; the scanner loop runs on its output
ZpoolReturn(t, results) ==
    /\ pc[t] = "zpool_wait"
    /\ \E res \in results :
          Section(t, "zpool", res, ZpoolSets(res),
                  IF res.err THEN AfterZpoolError(build, t)
                  ELSE Follow(build, t, "zpool"))

\* time.Sleep returns and the loop starts over
Wake(t) ==
    /\ pc[t] = "sleep"
    /\ Section(t, "wake", <<>>, <<>>, LoopHead(t))

(***************************************************************************)
(* The handler of /metrics (promhttp.HandlerFor): every request gathers    *)
(* the registry anew.  Gather collects every registered collector: a plain *)
(* gauge gives itself, a vector the children it has at that time; each     *)
(* value is one atomic load.  The library fixes no order among the         *)
(* collectors; a load commutes with every step but a Set of the same       *)
(* identity, so the model goes through them in the order of registration.  *)
(***************************************************************************)
Pub ==
    /\ ev' = [task |-> "http", op |-> "serve", in |-> <<>>, sets |-> <<>>]
    /\ UNCHANGED <<build, reg, pc, written>>

\* the identities of collector c in registry r
Children(r, c) == {id \in DOMAIN r : id[1] = c}

\* a slip: the handler keeps its last response and serves it again
PubStartCached ==
    /\ pubPc \in {"idle", "done"}
    /\ IF pubPc = "done"
       THEN UNCHANGED <<pubPc, todo, snap>>
       ELSE pubPc' = "gather" /\ todo' = Registered(build) /\ snap' = Empty
    /\ raced' = FALSE
    /\ Pub

PubStart ==
    /\ pubPc \in {"idle", "done"}
    /\ pubPc' = "gather"
    /\ todo' = Registered(build)
    /\ snap' = Empty
    /\ raced' = FALSE
    /\ Pub

PubCollect ==
    /\ pubPc = "gather"
    /\ todo # <<>>
    /\ LET ids == Children(reg, Head(todo))
       IN  snap' = [x \in DOMAIN snap \cup ids |->
                       IF x \in ids THEN Write(reg, x) ELSE snap[x]]
    /\ todo' = Tail(todo)
    /\ UNCHANGED <<pubPc, raced>>
    /\ Pub

\* the response is written: snap is its body
PubFinish ==
    /\ pubPc = "gather"
    /\ todo = <<>>
    /\ pubPc' = "done"
    /\ UNCHANGED <<todo, snap, raced>>
    /\ Pub

(***************************************************************************)
(* Specifications.  Spec is the whole program: the goroutines on a few     *)
(* results of every sampler, and the handler.  The others are the          *)
(* goroutines alone, on every result of one family of samplers and one     *)
(* result of each other sampler.                                           *)
(***************************************************************************)
Run(mem, cpu, swap, net, fs, zpool) ==
    \E t \in Tasks :
        \/ CollectRAM(t, mem)
        \/ CollectCPU(t, cpu)
        \/ CollectSwap(t, swap)
        \/ CollectNet(t, net)
        \/ CollectFS(t, fs)
        \/ ZpoolExec(t)
        \/ ZpoolReturn(t, zpool)
        \/ Wake(t)

MemFew == {Failed(0), Ok(42567), Ok(13100)}
CpuFew == {Failed(<<>>), Ok(<<13100>>)}
SwapFew == {Failed(0), Ok(99995)}
NetFew == {Failed(<<>>), Ok(<<[Name |-> Ens5, BytesSent |-> 1500, BytesRecv |-> 700]>>)}
FSFew ==
    {Failed(<<>>),
     Ok(<<Mounted(<<"s", "d", "a", "1">>, <<"/">>, Ok(75555))>>),
     Ok(<<Mounted(<<"s", "d", "a", "1">>, <<"/">>, Failed(0))>>)}
ZpoolFew == {Failed(<<>>), Ok(<<"t", "a", "n", "k", " ", "5", "5", "%">> \o <<"\n">>), Ok(<<"t", "a", "n", "k", " ", "x", "x", "%">> \o <<"\n">>)}

Next ==
    /\ \/ Run(MemFew, CpuFew, SwapFew, NetFew, FSFew, ZpoolFew)
       \/ PubStart
       \/ PubCollect
       \/ PubFinish
    /\ UNCHANGED hist

Spec == Init /\ [][Next]_vars

MemOne == {Ok(42567)}
CpuOne == {Ok(<<13100>>)}
SwapOne == {Ok(99995)}
NetOne == {Ok(<<[Name |-> Ens5, BytesSent |-> 1500, BytesRecv |-> 700]>>)}
FSOne == {Ok(<<Mounted(<<"s", "d", "a", "1">>, <<"/">>, Ok(75555))>>)}
ZpoolOne == {Ok(<<"t", "a", "n", "k", " ", "5", "5", "%">> \o <<"\n">>)}

NextGauges ==
    /\ Run(MemResults, CpuResults, SwapResults, NetOne, FSOne, ZpoolOne)
    /\ UNCHANGED hist
SpecGauges == Init /\ [][NextGauges]_vars

NextNet ==
    /\ Run(MemOne, CpuOne, SwapOne, NetResults, FSOne, ZpoolOne)
    /\ UNCHANGED hist
SpecNet == Init /\ [][NextNet]_vars

NextFS ==
    /\ Run(MemOne, CpuOne, SwapOne, NetOne, FSResults, ZpoolOne)
    /\ UNCHANGED hist
SpecFS == Init /\ [][NextFS]_vars

NextZpool ==
    /\ Run(MemOne, CpuOne, SwapOne, NetOne, FSOne, ZpoolResults)
    /\ UNCHANGED hist
SpecZpool == Init /\ [][NextZpool]_vars

\* the handler and the goroutines, on results that change from one cycle to
\* the next; the history is that of the requests: what had been overwritten
\* when the running request began
MemServe == {Ok(42567), Ok(13100)}
ZpoolServe ==
    ZpoolOne \cup {Ok(<<"t", "a", "n", "k", "\t", "8", "7", "%">> \o <<"\n">>)}

TrackServe ==
    hist' = [hist EXCEPT
        !.old = IF pubPc \in {"idle", "done"} /\ ev'.task = "http"
                THEN {w \in written : reg[w[1]] # w[2]}
                ELSE hist.old \ {ev'.sets[i] : i \in 1..Len(ev'.sets)},
        !.shown = IF pubPc = "gather" /\ pubPc' = "done"
                  THEN hist.shown \cup DOMAIN snap'
                  ELSE hist.shown]

NextServe ==
    /\ \/ Run(MemServe, CpuOne, SwapOne, NetOne, FSOne, ZpoolServe)
       \/ PubStart
       \/ PubCollect
       \/ PubFinish
    /\ TrackServe
SpecServe == Init /\ [][NextServe]_vars

\* the handler and the goroutines, on results that come and go: a pool, a
\* mount point or an interface that a later result no longer holds; the
\* history is that of the responses and of the last result of each sampler
Vanished == Ok(<<>>)
NetStale == NetOne \cup {Vanished}
FSStale == FSOne \cup {Vanished}
ZpoolStale == ZpoolOne \cup {Vanished}

TrackStale ==
    hist' = [hist EXCEPT
        !.shown = IF pubPc = "gather" /\ pubPc' = "done"
                  THEN hist.shown \cup DOMAIN snap'
                  ELSE hist.shown,
        !.prevIn = IF ev'.op \in {"net", "fs", "zpool"}
                   THEN [op \in DOMAIN hist.prevIn \cup {ev'.op} |->
                            IF op = ev'.op THEN ev'.in ELSE hist.prevIn[op]]
                   ELSE hist.prevIn]

NextStale ==
    /\ \/ Run(MemOne, CpuOne, SwapOne, NetStale, FSStale, ZpoolStale)
       \/ PubStart
       \/ PubCollect
       \/ PubFinish
    /\ TrackStale
SpecStale == Init /\ [][NextStale]_vars

\* the goroutines alone, on two results of four of the samplers; the history is
\* that of the cycles: the last result of each sampler, whether a cycle
\* repeats the results of the one before, and which samplers have failed
MemCycle == {Failed(0), Ok(42567)}
CpuCycle == {Ok(<<13100>>), Ok(<<20000>>)}
FSCycle ==
    {Ok(<<Mounted(<<"s", "d", "a", "1">>, <<"/">>, Ok(75555))>>),
     Ok(<<Mounted(<<"s", "d", "a", "1">>, <<"/">>, Failed(0))>>)}
ZpoolCycle == {Failed(<<>>)} \cup ZpoolOne
Samplers == {"ram", "cpu", "swap", "net", "fs", "zpool"}

TrackCycle ==
    IF ev'.op \notin Samplers THEN UNCHANGED hist
    ELSE LET t     == ev'.task
             again == ev'.op \in DOMAIN hist.prevIn /\ hist.prevIn[ev'.op] = ev'.in
             first == pc[t] = LoopHead(t) \/ ev'.op = LoopHead(t)
         IN  hist' = [hist EXCEPT
                 !.prevIn = [op \in DOMAIN hist.prevIn \cup {ev'.op} |->
                                IF op = ev'.op THEN ev'.in ELSE hist.prevIn[op]],
                 !.same = [hist.same EXCEPT
                              ![t] = again /\ (first \/ hist.same[t])],
                 !.failed = IF ev'.in.err THEN hist.failed \cup {ev'.op}
                            ELSE hist.failed]

NextCycle ==
    /\ Run(MemCycle, CpuCycle, SwapOne, NetOne, FSCycle, ZpoolCycle)
    /\ TrackCycle
SpecCycle == Init /\ [][NextCycle]_vars

\* the same with the scheduling of Go: a goroutine that can run does run,
\* a sleep ends, and the sampler calls return
LiveStep(t) ==
    /\ \/ CollectRAM(t, MemCycle)
       \/ CollectCPU(t, CpuCycle)
       \/ CollectSwap(t, SwapOne)
       \/ CollectNet(t, NetOne)
       \/ CollectFS(t, FSCycle)
       \/ ZpoolExec(t)
       \/ ZpoolReturn(t, ZpoolCycle)
       \/ Wake(t)
    /\ TrackCycle
SpecLive == Init /\ [][NextCycle]_vars /\ \A t \in Tasks : WF_vars(LiveStep(t))

(***************************************************************************)
(* Properties                                                              *)
(***************************************************************************)
Range(seq) == {seq[i] : i \in 1..Len(seq)}

\* the identities a Set call has ever stored
Upserted == {w[1] : w \in written}

RamId == Id("ramUsage", <<>>)
CpuId == Id("cpuUsage", <<>>)
SwapId == Id("swapUsage", <<>>)
PoolId(name) == Id("zfsUsage", <<name>>)
FsId(p) == Id("fsUsage", <<p.Device, p.Mountpoint>>)
Tank == <<"t", "a", "n", "k">>
Backup == <<"b", "a", "c", "k", "u", "p">>

\* the metrics each sampler feeds
Family(op) ==
    CASE op = "ram"   -> {"ramUsage"}
      [] op = "cpu"   -> {"cpuUsage"}
      [] op = "swap"  -> {"swapUsage"}
      [] op = "net"   -> {"netBytesSent", "netBytesRecv"}
      [] op = "fs"    -> {"fsUsage"}
      [] op = "zpool" -> {"zfsUsage"}
      [] OTHER        -> {}

\* a mount point under one of the three excluded prefixes
UnderExcludedPrefix(mountpoint) ==
    \E prefix \in {PrefixBootEfi, PrefixZpools, PrefixDockerVolumes} :
        HasPrefix(mountpoint, prefix)

\* a partition of an enumeration whose usage is sampled with success
PartOk(p) == ~UnderExcludedPrefix(p.Mountpoint) /\ ~p.Usage.err

\* a line of the pool command with two fields, the second a number after
\* an optional % is taken off
LineOk(l) ==
    /\ Len(Fields(l)) = 2
    /\ ~ParseFloat(TrimSuffix(Fields(l)[2], Percent)).err
LinePool(l) == PoolId(Fields(l)[1])
LineCap(l) == roundToTwoDecimals(ParseFloat(TrimSuffix(Fields(l)[2], Percent)).val)

\* identity id is in r2 what it was in r
Kept(r, r2, id) ==
    /\ id \in DOMAIN r <=> id \in DOMAIN r2
    /\ id \in DOMAIN r => r2[id] = r[id]

\* the identities, among ids, whose sampler failed in step e and gave no
\* sample: the whole family when the query or the command failed, a
\* partition whose usage query failed, the pool of an unparsable line
FailedIds(e, ids) ==
    IF Family(e.op) = {} THEN {}
    ELSE IF e.in.err THEN {id \in ids : id[1] \in Family(e.op)}
    ELSE CASE e.op = "fs" ->
                {FsId(p) : p \in {x \in Range(e.in.val) : x.Usage.err}}
                \ {FsId(p) : p \in {x \in Range(e.in.val) : PartOk(x)}}
           [] e.op = "zpool" ->
                LET ls == Range(ScanLines(e.in.val))
                IN  {LinePool(l) : l \in {x \in ls : Fields(x) # <<>> /\ ~LineOk(x)}}
                    \ {LinePool(l) : l \in {x \in ls : LineOk(x)}}
           [] OTHER -> {}

\* C1: last known good.  A step in which the sampler of an identity fails
\* (query or command error, usage error of its partition, unparsable line of
\* its pool) leaves the identity as it was: present with the same value, or
\* absent; it is not removed and not zeroed.
C1_LastKnownGood ==
    [][\A id \in FailedIds(ev', DOMAIN reg \cup DOMAIN reg' \cup Upserted') :
          Kept(reg, reg', id)]_vars

\* C1's case: the memory query has just failed after an earlier sample of
\* 42.57 was stored, and 42.57 is still there
C1_Witness ==
    /\ ev.op = "ram" /\ ev.in.err
    /\ <<RamId, 4257>> \in written
    /\ reg[RamId] = 4257

C3_ExcludedMounts ==
    /\ [](\A w \in written :
            w[1][1] = "fsUsage" => ~UnderExcludedPrefix(w[1][2][2]))
    /\ [][ev'.op = "fs" /\ ~ev'.in.err =>
            \A p \in Range(ev'.in.val) :
                PartOk(p) =>
                    /\ <<FsId(p), roundToTwoDecimals(p.Usage.val)>> \in Range(ev'.sets)
                    /\ FsId(p) \in DOMAIN reg']_vars

\* C3's case: an enumeration held an excluded and a usable partition, and
\* only the usable one is in the registry
C3_Witness ==
    /\ ev.op = "fs" /\ ~ev.in.err
    /\ \E p \in Range(ev.in.val) : UnderExcludedPrefix(p.Mountpoint)
    /\ \E p \in Range(ev.in.val) : PartOk(p) /\ FsId(p) \in DOMAIN reg
    /\ \A id \in DOMAIN reg : id[1] = "fsUsage" => ~UnderExcludedPrefix(id[2][2])

\* C4: no network metric is ever upserted for an interface whose name does
\* not start with "ens", and a network step whose query succeeded upserts
\* both counters of every interface whose name does.
C4_InterfacePrefix ==
    /\ [](\A w \in written :
            w[1][1] \in {"netBytesSent", "netBytesRecv"} =>
                HasPrefix(w[1][2][1], <<"e", "n", "s">>))
    /\ [][ev'.op = "net" /\ ~ev'.in.err =>
            \A stat \in Range(ev'.in.val) :
                HasPrefix(stat.Name, <<"e", "n", "s">>) =>
                    /\ <<Id("netBytesSent", <<stat.Name>>), stat.BytesSent>> \in Range(ev'.sets)
                    /\ <<Id("netBytesRecv", <<stat.Name>>), stat.BytesRecv>> \in Range(ev'.sets)
                    /\ {Id("netBytesSent", <<stat.Name>>),
                        Id("netBytesRecv", <<stat.Name>>)} \subseteq DOMAIN reg']_vars

\* C4's case: a query returned ens5 and eth0; both counters of ens5 are
\* stored and nothing of eth0
C4_Witness ==
    /\ ev.op = "net" /\ ~ev.in.err
    /\ {stat.Name : stat \in Range(ev.in.val)} = {Ens5, Eth0}
    /\ {id[2][1] : id \in {x \in DOMAIN reg : x[1] = "netBytesSent"}} = {Ens5}
    /\ {id[2][1] : id \in {x \in DOMAIN reg : x[1] = "netBytesRecv"}} = {Ens5}


\* a line of two fields whose second field does not end in %
MissingPercent(l) ==
    /\ Len(Fields(l)) = 2
    /\ Fields(l)[2][Len(Fields(l)[2])] # "%"

HasPercent(l) == ~MissingPercent(l)

\* C5: a line whose second field has no % suffix gives no pool entry, and
\* the other lines are parsed as if it were not there: the Set calls of a
\* pool step are those of its output without such lines.
C5_NoPercentNoEntry ==
    [][ev'.op = "zpool" /\ ~ev'.in.err =>
          ev'.sets = ScannerLoop(SelectSeq(ScanLines(ev'.in.val), HasPercent))]_vars

\* C6: the pools a pool step upserts are exactly the pools of the
\* well-formed lines of its output (two fields, a numeric capacity), one Set
\* call per such line with the capacity parsed from it, wherever the
\* malformed lines stand; the registry then holds, for each of these pools,
\* the capacity of its last well-formed line.
C6_MalformedLinesSkipped ==
    [][ev'.op = "zpool" /\ ~ev'.in.err =>
          LET ls == ScanLines(ev'.in.val)
              ok == {i \in 1..Len(ls) : LineOk(ls[i])}
          IN  /\ {set[1] : set \in Range(ev'.sets)} = {LinePool(ls[i]) : i \in ok}
              /\ Len(ev'.sets) = Cardinality(ok)
              /\ \A i \in ok :
                    /\ <<LinePool(ls[i]), LineCap(ls[i])>> \in Range(ev'.sets)
                    /\ (\A j \in ok : j > i => LinePool(ls[j]) # LinePool(ls[i]))
                          => reg'[LinePool(ls[i])] = LineCap(ls[i])
              /\ \A id \in DOMAIN reg' :
                    id \notin {LinePool(ls[i]) : i \in ok} => Kept(reg, reg', id)]_vars

\* C6's case: the command wrote `tank 55%` and `backup xx%`, and the one
\* pool metric is tank at 55.0
C6_Witness ==
    /\ ev.op = "zpool" /\ ~ev.in.err
    /\ ScanLines(ev.in.val) = << <<"t", "a", "n", "k", " ", "5", "5", "%">>,
                                 <<"b", "a", "c", "k", "u", "p", " ", "x", "x", "%">> >>
    /\ Children(reg, "zfsUsage") = {PoolId(Tank)}
    /\ reg[PoolId(Tank)] = 5500

\* a step of a sampler other than the pool command, or the end of a sleep
OtherSamplerStep ==
    \E t \in Tasks :
        \/ CollectRAM(t, MemFew)
        \/ CollectCPU(t, CpuFew)
        \/ CollectSwap(t, SwapFew)
        \/ CollectNet(t, NetFew)
        \/ CollectFS(t, FSFew)
        \/ Wake(t)

\* C7: while the pool command is pending, the sampling of the other metrics
\* goes on: a goroutine that samples them can take its next step.
C7_PoolStallBlocksNoOne ==
    (\E t \in Tasks : pc[t] = "zpool_wait") => ENABLED OtherSamplerStep

\* C8: a step stores every value it Sets (the last one for an identity set
\* twice) and leaves every other identity as it was; a response that ends
\* with no Set call made since its request shows every upserted identity
\* with the value last written to it.
C8_DistinctIdentitiesIntact ==
    /\ [][/\ \A i \in 1..Len(ev'.sets) :
                (\A j \in 1..Len(ev'.sets) : j > i => ev'.sets[j][1] # ev'.sets[i][1])
                    => /\ ev'.sets[i][1] \in DOMAIN reg'
                       /\ reg'[ev'.sets[i][1]] = ev'.sets[i][2]
          /\ \A id \in (DOMAIN reg \cup DOMAIN reg') \ {set[1] : set \in Range(ev'.sets)} :
                Kept(reg, reg', id)]_vars
    /\ [][pubPc = "gather" /\ pubPc' = "done" /\ ~raced' =>
            /\ Upserted' \subseteq DOMAIN snap'
            /\ \A id \in DOMAIN snap' : snap'[id] = reg'[id]
            /\ \A id \in Upserted' : <<id, snap'[id]>> \in written']_vars

\* C8's case: the three goroutines of part_002 have each upserted an
\* identity of their own, and a response gathered after that shows the three
\* values
C8_Witness ==
    /\ build = "part_002"
    /\ pubPc = "done" /\ ~raced /\ ev.task = "http"
    /\ {<<RamId, 4257>>, <<PoolId(Tank), 5500>>} \subseteq written
    /\ \E id \in Upserted : id[1] = "fsUsage"
    /\ Upserted \subseteq DOMAIN snap
    /\ snap[RamId] = 4257 /\ snap[PoolId(Tank)] = 5500
    /\ \A id \in Upserted : id[1] = "fsUsage" => snap[id] = 7556

C10_ValueRange ==
    \A id \in DOMAIN reg :
        IF id[1] \in {"netBytesSent", "netBytesRecv"}
        THEN reg[id] >= 0
        ELSE reg[id] \in 0..10000


\* the multiple of 0.01 nearest to r thousandths, the farther from zero of
\* two that are as near; in hundredths
NearestHundredth(r) ==
    CHOOSE h \in ((r \div 10) - 1)..((r \div 10) + 1) :
        IF r >= 0 THEN 10 * h - r \in -4..5 ELSE 10 * h - r \in -5..4

\* the raw percentages of a step with their identities: what a successful
\* sampler of the step returned
RawSamples(e) ==
    IF Family(e.op) = {} \/ e.in.err THEN {}
    ELSE CASE e.op = "ram"  -> {<<RamId, e.in.val>>}
           [] e.op = "swap" -> {<<SwapId, e.in.val>>}
           [] e.op = "cpu"  -> IF e.in.val = <<>> THEN {}
                               ELSE {<<CpuId, e.in.val[1]>>}
           [] e.op = "fs"   ->
                {<<FsId(p), p.Usage.val>> : p \in {x \in Range(e.in.val) : PartOk(x)}}
           [] e.op = "zpool" ->
                {<<LinePool(l), ParseFloat(TrimSuffix(Fields(l)[2], Percent)).val>> :
                    l \in {x \in Range(ScanLines(e.in.val)) : LineOk(x)}}
           [] OTHER -> {}

\* C11: the values a step upserts for percentage metrics are exactly the
\* raw values its samplers returned, each rounded to the nearest 0.01, half
\* away from zero; a raw value in [0,100] is stored as a value in [0,100].
C11_RoundedToTwoDecimals ==
    [][ev'.op \in {"ram", "cpu", "swap", "fs", "zpool"} =>
          /\ Range(ev'.sets) =
                {<<s[1], NearestHundredth(s[2])>> : s \in RawSamples(ev')}
          /\ \A s \in RawSamples(ev') :
                s[2] \in 0..100000 => NearestHundredth(s[2]) \in 0..10000]_vars

\* C11's case: memory was sampled at 42.567 and CPU at 13.1; the registry
\* holds 42.57 and 13.1
C11_Witness ==
    /\ ev.op = "cpu" /\ ev.in = Ok(<<13100>>)
    /\ <<RamId, 4257>> \in written
    /\ reg[RamId] = 4257 /\ reg[CpuId] = 1310


\* C12: no value of a response is one that was overwritten before its
\* request began (and not upserted again since): every request reads the
\* registry anew, and each value it reads is the one the registry holds at
\* that time.
C12_NoCaching ==
    /\ [](\A id \in DOMAIN snap : <<id, snap[id]>> \notin hist.old)
    /\ [][\A id \in DOMAIN snap' :
            id \notin DOMAIN snap \/ snap'[id] # snap[id] =>
                id \in DOMAIN reg /\ snap'[id] = reg[id]]_vars

\* C12's case: RAM was upserted at one value and then at another; the
\* response to a request begun after that shows the later one
C12_Witness ==
    /\ pubPc = "done"
    /\ \E w \in hist.old : w[1] = RamId
    /\ RamId \in hist.shown
    /\ <<RamId, snap[RamId]>> \in written
    /\ snap[RamId] = reg[RamId]

\* C13: no step removes an identity from the registry or changes the value
\* of an identity it does not upsert, and every response shows every
\* identity that an earlier response has shown.
C13_EntriesPersist ==
    /\ [](pubPc = "done" => hist.shown \subseteq DOMAIN snap)
    /\ [][/\ DOMAIN reg \subseteq DOMAIN reg'
          /\ \A id \in DOMAIN reg \ {set[1] : set \in Range(ev'.sets)} :
                reg'[id] = reg[id]]_vars

\* C13's case: pool tank was upserted at 55.0 and shown; the command then
\* returned no pool, and the next response still shows tank at 55.0
C13_Witness ==
    /\ pubPc = "done" /\ ev.task = "http"
    /\ "zpool" \in DOMAIN hist.prevIn /\ hist.prevIn["zpool"] = Vanished
    /\ PoolId(Tank) \in hist.shown
    /\ PoolId(Tank) \in DOMAIN snap /\ snap[PoolId(Tank)] = 5500
    /\ ~raced


\* C14: an upsert replaces: after a step the registry holds, for each
\* identity the step Sets, the value Set (the last one, when Set twice),
\* whatever it held before; and a step of a cycle whose samplers have so far
\* given the results of the goroutine's cycle before leaves the registry as
\* it is.
C14_IdempotentReplacement ==
    [][/\ \A i \in 1..Len(ev'.sets) :
            (\A j \in (i + 1)..Len(ev'.sets) : ev'.sets[j][1] # ev'.sets[i][1])
                => reg'[ev'.sets[i][1]] = ev'.sets[i][2]
       /\ ev'.op \in Samplers /\ hist'.same[ev'.task] => reg' = reg]_vars

\* C14's case: the single loop of part_001 has run a second cycle in which
\* every sampler succeeded with the result of the cycle before; RAM, stored
\* twice at 42.57, is at 42.57
C14_Witness ==
    /\ build = "part_001"
    /\ pc["metrics"] = "sleep" /\ hist.same["metrics"]
    /\ \A op \in DOMAIN hist.prevIn : ~hist.prevIn[op].err
    /\ hist.prevIn["ram"] = Ok(42567) /\ reg[RamId] = 4257


\* C15: a goroutine starts an iteration of its loop, and so its next
\* sampling attempt, only when its sleep has ended: no step takes it to the
\* first statement of the loop from anywhere but the sleep.
C15_SleepOnEveryPath ==
    [][\A t \in Tasks :
          pc'[t] = LoopHead(t) /\ pc'[t] # pc[t] => pc[t] = "sleep"]_vars


\* C16: in the loop that owns several samplers, every sampler is asked in
\* every cycle and its result is handled by itself: whatever the samplers
\* before it returned, a sampler that fails is followed by the next one, and
\* a sampler that succeeds has its sample upserted.
C16_SamplersIndependent ==
    [][ev'.task = "metrics" /\ ev'.op \in Samplers =>
          /\ pc'["metrics"] =
                CASE ev'.op = "ram" -> "cpu"
                  [] ev'.op = "cpu" -> IF build = "part_001" THEN "swap" ELSE "sleep"
                  [] ev'.op = "swap" -> "net"
                  [] ev'.op = "net" -> "fs"
                  [] ev'.op = "fs" -> "zpool"
                  [] ev'.op = "zpool" -> "sleep"
          /\ \A s \in RawSamples(ev') :
                /\ s[1] \in DOMAIN reg'
                /\ reg'[s[1]] = NearestHundredth(s[2])
          /\ ev'.op = "net" /\ ~ev'.in.err =>
                \A stat \in Range(ev'.in.val) :
                    HasPrefix(stat.Name, <<"e", "n", "s">>) =>
                        /\ reg'[Id("netBytesSent", <<stat.Name>>)] = stat.BytesSent
                        /\ reg'[Id("netBytesRecv", <<stat.Name>>)] = stat.BytesRecv]_vars

\* C16's case: after a cycle that stored RAM at 42.57, a cycle in which the
\* memory query failed and CPU was sampled at 20.0: RAM is at 42.57 and CPU
\* at 20.0
C16_Witness ==
    /\ ev.op = "cpu" /\ ev.in = Ok(<<20000>>)
    /\ "ram" \in DOMAIN hist.prevIn /\ hist.prevIn["ram"].err
    /\ <<RamId, 4257>> \in written
    /\ reg[RamId] = 4257 /\ reg[CpuId] = 2000


\* C17: a filesystem step in which the usage query of a partition fails
\* upserts every partition of its enumeration that is not excluded and
\* whose usage query succeeds, before or after the failing one, and no
\* other: the registry then holds for each the usage of its last such
\* entry.
C17_UsageFailureSkipped ==
    [][/\ ev'.op = "fs" /\ ~ev'.in.err
       /\ \E p \in Range(ev'.in.val) :
             ~UnderExcludedPrefix(p.Mountpoint) /\ p.Usage.err
       => LET ps   == ev'.in.val
              good == {i \in 1..Len(ps) : PartOk(ps[i])}
          IN  /\ {set[1] : set \in Range(ev'.sets)} = {FsId(ps[i]) : i \in good}
              /\ Len(ev'.sets) = Cardinality(good)
              /\ \A i \in good :
                    /\ FsId(ps[i]) \in DOMAIN reg'
                    /\ (\A j \in good : j > i => FsId(ps[j]) # FsId(ps[i]))
                          => reg'[FsId(ps[i])] = NearestHundredth(ps[i].Usage.val)]_vars

\* C17's case: the usage query failed for / and succeeded for /boot, next
\* in the enumeration; /boot is stored at 75.56 and / is not stored
C17_Witness ==
    /\ ev.op = "fs" /\ ~ev.in.err /\ Len(ev.in.val) = 2
    /\ ev.in.val[1].Mountpoint = <<"/">> /\ ev.in.val[1].Usage.err
    /\ PartOk(ev.in.val[2])
    /\ FsId(ev.in.val[2]) \in DOMAIN reg /\ reg[FsId(ev.in.val[2])] = 7556
    /\ FsId(ev.in.val[1]) \notin DOMAIN reg


\* C18: no goroutine that main started ever stops, whatever its samplers
\* return; each is again and again at the first statement of its loop and
\* again and again past it, that is, it makes a sampling attempt again and
\* again; and a sample that succeeds is in the registry after its step.
C18_NoFailureFatal ==
    /\ [](\A t \in Started(build) : pc[t] # "off")
    /\ \A t \in Tasks :
          /\ []<>(t \notin Started(build) \/ pc[t] = LoopHead(t))
          /\ []<>(t \notin Started(build) \/ pc[t] # LoopHead(t))
    /\ [][\A s \in RawSamples(ev') : s[1] \in DOMAIN reg']_vars

\* C18's case: the memory query and the pool command have failed; later
\* both succeeded, and their samples are in the registry
C18_Witness ==
    /\ {"ram", "zpool"} \subseteq hist.failed
    /\ ev.op = "zpool" /\ ~ev.in.err
    /\ reg[PoolId(Tank)] = 5500
    /\ ~hist.prevIn["ram"].err /\ reg[RamId] = 4257


(***************************************************************************)
(* The goroutines on samples that rise from cycle to cycle: the sample of  *)
(* cycle k is 10 * k percent, above everything sampled before, so that a   *)
(* value of the registry tells the cycle it was sampled in.  A sampler has *)
(* MaxCycles such samples to give.                                         *)
(***************************************************************************)
Held(id) == IF id \in DOMAIN reg THEN reg[id] ELSE 0
Rising(id) == {k \in 1..MaxCycles : k * 1000 > Held(id)}
DigitChars == <<"1", "2", "3", "4", "5", "6", "7", "8", "9">>
MemRising == {Ok(k * 10000) : k \in Rising(RamId)}
CpuRising == {Ok(<<k * 10000>>) : k \in Rising(CpuId)}
ZpoolRising ==
    {Ok(Tank \o <<" ", DigitChars[k], "0", "%", "\n">>) : k \in Rising(PoolId(Tank))}

NextRising ==
    /\ Run(MemRising, CpuRising, SwapOne, NetOne, FSOne, ZpoolRising)
    /\ UNCHANGED hist
SpecRising == Init /\ [][NextRising]_vars

\* C19: with samples that rise from cycle to cycle, once the value of a
\* cycle has been upserted for an identity the registry never holds a
\* smaller one for it, that is, never the value of an earlier cycle: the
\* value of an identity never goes back.
C19_LaterCycleOverwrites ==
    /\ [](\A w \in written : w[1] \in DOMAIN reg /\ reg[w[1]] >= w[2])
    /\ [][\A id \in DOMAIN reg : reg'[id] >= reg[id]]_vars

\* C19's case: RAM was upserted in three cycles and the pool in two; the
\* registry holds the values of the last ones
C19_Witness ==
    /\ {<<RamId, 1000>>, <<RamId, 2000>>, <<RamId, 3000>>} \subseteq written
    /\ reg[RamId] = 3000
    /\ {<<PoolId(Tank), 1000>>, <<PoolId(Tank), 2000>>} \subseteq written
    /\ reg[PoolId(Tank)] = 2000


\* C20: a CPU step whose query returned no error and an empty list makes no
\* Set call and leaves the whole registry, the CPU gauge with it, as it
\* was; the loop goes on with what follows the CPU section.
C20_EmptyCpuListNoUpsert ==
    [][ev'.op = "cpu" /\ ~ev'.in.err /\ ev'.in.val = <<>> =>
          /\ ev'.sets = <<>>
          /\ reg' = reg /\ written' = written
          /\ pc'[ev'.task] = IF build = "part_001" THEN "swap" ELSE "sleep"]_vars

\* C20's case: CPU was stored at 13.1, then the query returned an empty
\* list: CPU is still at 13.1
C20_Witness ==
    /\ ev.op = "cpu" /\ ev.in = Ok(<<>>)
    /\ <<CpuId, 1310>> \in written
    /\ reg[CpuId] = 1310

=============================================================================
